---- MODULE Spec2Model ----
(***************************************************************************)
(* College Directory server (src/server.js): the students table, the       *)
(* registration-number allocator, POST /api/register and GET /api/students.*)
(*                                                                         *)
(* Text is a sequence of one-character strings.  A request body is a       *)
(* function from the fields it carries to their text: a field that is not  *)
(* in the body's DOMAIN is undefined in JavaScript.                        *)
(***************************************************************************)
EXTENDS Integers, Sequences, FiniteSets, TLC

VARIABLES
    students,   \* the students table, rows in insertion order
    year,       \* the calendar year new Date().getFullYear() returns
    pc,         \* per request slot: "idle", "read", "insert", "done"
    body,       \* per slot: req.body of the request being handled
    prefix,     \* per slot: the allocator's prefix, fixed before its read
    regNo,      \* per slot: the allocator's result
    response,   \* per slot: the response sent
    listResp    \* the response of the GET /api/students being delivered

vars == <<students, year, pc, body, prefix, regNo, response, listResp>>

----------------------------------------------------------------------------
(* Bounds of the model *)

\* rows the table may reach in the runs that start from an empty table
MaxRecords == 3

\* rows a serial run may add to an empty table
MaxSerial == 2

\* rows of the table a long serial run starts from (all of one year)
NearFull == 998

\* request slots: requests that can be in flight together
Reqs == {"r1", "r2"}

\* calendar years the clock passes through
Years == {2025, 2026}

FirstYear == CHOOSE y \in Years : \A z \in Years : y <= z

----------------------------------------------------------------------------
(* Strings *)

\* The characters of registration numbers, in code-unit order (SQLite's BINARY
\* collation and JavaScript compare by code unit: digits < "C" < "L" < "O").
Alphabet == <<"0", "1", "2", "3", "4", "5", "6", "7", "8", "9", "C", "L", "O">>

DigitChars == SubSeq(Alphabet, 1, 10)

CharCode(c) == CHOOSE i \in 1..Len(Alphabet) : Alphabet[i] = c

IsDigit(c) == \E i \in 1..Len(DigitChars) : DigitChars[i] = c

DigitValue(c) == CharCode(c) - 1

\* String(n) for a non-negative integer
RECURSIVE Digits(_)
Digits(n) ==
    IF n < 10 THEN <<DigitChars[n + 1]>>
    ELSE Append(Digits(n \div 10), DigitChars[(n % 10) + 1])

\* s.padStart(width, fill)
RECURSIVE PadStart(_, _, _)
PadStart(s, width, fill) ==
    IF Len(s) >= width THEN s ELSE PadStart(<<fill>> \o s, width, fill)

\* s.slice(-n)
SliceLast(s, n) ==
    IF Len(s) <= n THEN s ELSE SubSeq(s, Len(s) - n + 1, Len(s))

\* the leading run of decimal digits of s
RECURSIVE LeadingDigits(_)
LeadingDigits(s) ==
    IF s = <<>> \/ ~IsDigit(Head(s)) THEN <<>>
    ELSE <<Head(s)>> \o LeadingDigits(Tail(s))

RECURSIVE DigitsValue(_)
DigitsValue(ds) ==
    IF ds = <<>> THEN 0
    ELSE 10 * DigitsValue(SubSeq(ds, 1, Len(ds) - 1)) + DigitValue(ds[Len(ds)])

\* parseInt(s, 10) on strings of the alphabet; NaN is written -1
NaN == -1
ParseInt(s) ==
    IF LeadingDigits(s) = <<>> THEN NaN ELSE DigitsValue(LeadingDigits(s))

\* s.trim(): the only whitespace of the model is the space
RECURSIVE TrimStart(_)
TrimStart(s) ==
    IF s # <<>> /\ Head(s) = " " THEN TrimStart(Tail(s)) ELSE s

RECURSIVE TrimEnd(_)
TrimEnd(s) ==
    IF s # <<>> /\ s[Len(s)] = " " THEN TrimEnd(SubSeq(s, 1, Len(s) - 1)) ELSE s

Trim(s) == TrimEnd(TrimStart(s))

\* p is a prefix of s: reg_no LIKE 'p%' (p holds no wildcard)
IsPrefix(p, s) == Len(p) <= Len(s) /\ SubSeq(s, 1, Len(p)) = p

\* a < b in code-unit order
RECURSIVE StrLess(_, _)
StrLess(a, b) ==
    IF b = <<>> THEN FALSE
    ELSE IF a = <<>> THEN TRUE
    ELSE IF Head(a) # Head(b) THEN CharCode(Head(a)) < CharCode(Head(b))
    ELSE StrLess(Tail(a), Tail(b))

----------------------------------------------------------------------------
(* Requests *)

FieldOrder == <<"name", "email", "department", "address", "division">>

Fields == {FieldOrder[i] : i \in 1..Len(FieldOrder)}

Plain == <<"a">>

\* texts a field is submitted with: empty, blank, plain, padded, another word
FieldText == {<<>>, <<" ">>, Plain, <<" ", "a", " ">>, <<"b">>}

PlainBody == [g \in Fields |-> Plain]

\* bodies: any subset of the fields present, one of them with any text
Bodies ==
    {[g \in S |-> IF g = f THEN v ELSE Plain] :
        S \in SUBSET Fields, f \in Fields, v \in FieldText}

\* the bodies of the concurrent runs
ConcBodies ==
    {PlainBody,
     [PlainBody EXCEPT !["department"] = <<"b">>],
     [PlainBody EXCEPT !["name"] = <<" ", "a", " ">>],
     [g \in Fields \ {"email"} |-> Plain]}

\* the bodies of the long serial runs
LongBodies ==
    {[g \in S |-> Plain] : S \in SUBSET Fields}
        \cup {[PlainBody EXCEPT !["department"] = <<"b">>]}

\* query strings of GET /api/students
Queries ==
    {[g \in S |-> v] : S \in SUBSET {"department"}, v \in {<<>>, Plain, <<"b">>}}

\* !b[f] in JavaScript, for a field that is undefined or a string
Falsy(b, f) == f \notin DOMAIN b \/ b[f] = <<>>

\* as MissingFields, but stopping at the first missing field
MissingFirst(b) ==
    IF SelectSeq(FieldOrder, LAMBDA f : Falsy(b, f)) = <<>> THEN <<>>
    ELSE <<Head(SelectSeq(FieldOrder, LAMBDA f : Falsy(b, f)))>>

\* missingFields, lines 104-109
MissingFields(b) == SelectSeq(FieldOrder, LAMBDA f : Falsy(b, f))

NoBody == <<>>
NoText == <<>>
NoResponse == [status |-> 0]
NoList == [status |-> 0]

----------------------------------------------------------------------------
(* Record store *)

COL == <<"C", "O", "L">>

RegNos(tbl) == {tbl[i].reg_no : i \in 1..Len(tbl)}

\* as UniqueOk, without the UNIQUE constraint
UniqueOkOff(tbl, no) == TRUE

\* reg_no TEXT UNIQUE: the insert is refused when the value is already stored
UniqueOk(tbl, no) == no \notin RegNos(tbl)

\* id INTEGER PRIMARY KEY AUTOINCREMENT; rows are never deleted
NextId(tbl) == IF tbl = <<>> THEN 1 ELSE tbl[Len(tbl)].id + 1

\* the greater of two reg_no values, NoText standing for no row
Greater(a, b) == IF StrLess(a, b) THEN b ELSE a

\* the greatest reg_no LIKE pre% among rows lo..hi, NoText when there is none
RECURSIVE MaxRegNo(_, _, _, _)
MaxRegNo(tbl, pre, lo, hi) ==
    IF lo > hi THEN NoText
    ELSE IF lo = hi
         THEN (IF IsPrefix(pre, tbl[lo].reg_no) THEN tbl[lo].reg_no ELSE NoText)
         ELSE LET mid == (lo + hi) \div 2
              IN  Greater(MaxRegNo(tbl, pre, lo, mid), MaxRegNo(tbl, pre, mid + 1, hi))

\* as dbGetLatest, matching every year's rows
dbGetLatestAnyYear(tbl, pre) ==
    LET top == MaxRegNo(tbl, COL, 1, Len(tbl))
    IN  IF top = NoText THEN <<>> ELSE <<[reg_no |-> top]>>

\* SELECT reg_no FROM students WHERE reg_no LIKE ? ORDER BY reg_no DESC LIMIT 1
dbGetLatest(tbl, pre) ==
    LET top == MaxRegNo(tbl, pre, 1, Len(tbl))
    IN  IF top = NoText THEN <<>> ELSE <<[reg_no |-> top]>>

\* ORDER BY id DESC
RECURSIVE OrderByIdDesc(_)
OrderByIdDesc(rows) ==
    IF rows = {} THEN <<>>
    ELSE LET top == CHOOSE x \in rows : \A y \in rows : y.id <= x.id
         IN  <<top>> \o OrderByIdDesc(rows \ {top})

Rows(tbl) == {tbl[i] : i \in 1..Len(tbl)}

\* as dbAllStudents, without the WHERE clause
dbAllUnfiltered(tbl, q) == OrderByIdDesc(Rows(tbl))

\* the two SELECTs of GET /api/students
dbAllStudents(tbl, q) ==
    IF ~Falsy(q, "department")
    THEN OrderByIdDesc({x \in Rows(tbl) : x.department = q["department"]})
    ELSE OrderByIdDesc(Rows(tbl))

----------------------------------------------------------------------------
(* Registration number allocator *)

SliceLen == 3
PadWidth == 3

\* `COL${currentYear}`
Prefix(y) == COL \o Digits(y)

\* lines 79-86, from the rows the query returned
NextSequence(rows) ==
    IF rows # <<>> /\ rows[1].reg_no # NoText
    THEN LET lastSeq == ParseInt(SliceLast(rows[1].reg_no, SliceLen))
         IN  IF lastSeq # NaN THEN lastSeq + 1 ELSE 1
    ELSE 1

\* lines 88-89
FormatRegNo(pre, seq) == pre \o PadStart(Digits(seq), PadWidth, "0")

generateRegistrationNumber(tbl, pre) == FormatRegNo(pre, NextSequence(dbGetLatest(tbl, pre)))

----------------------------------------------------------------------------
(* POST /api/register *)

\* the row of the INSERT, lines 117-121
InsertedRow(tbl, no, b) ==
    [id |-> NextId(tbl), reg_no |-> no,
     name |-> Trim(b["name"]), email |-> Trim(b["email"]),
     department |-> Trim(b["department"]), address |-> Trim(b["address"]),
     division |-> Trim(b["division"])]

\* the student object of the 201 response, lines 123-126
ResponseStudent(no, b) ==
    [reg_no |-> no, name |-> b["name"], email |-> b["email"],
     department |-> b["department"], address |-> b["address"],
     division |-> b["division"]]

\* The handler up to its first await: validation, then the allocator's prefix
\* and the submission of its query (lines 102-115 and 71-77).
Register(r, b) ==
    /\ pc[r] = "idle"
    /\ IF MissingFields(b) # <<>>
       THEN /\ pc' = [pc EXCEPT ![r] = "done"]
            /\ response' = [response EXCEPT
                   ![r] = [status |-> 400, missing |-> MissingFields(b)]]
            /\ body' = [body EXCEPT ![r] = b]
            /\ UNCHANGED prefix
       ELSE /\ pc' = [pc EXCEPT ![r] = "read"]
            /\ body' = [body EXCEPT ![r] = b]
            /\ prefix' = [prefix EXCEPT ![r] = Prefix(year)]
            /\ UNCHANGED response
    /\ UNCHANGED <<students, year, regNo, listResp>>

\* dbGet resolves: the rest of generateRegistrationNumber, and the INSERT is
\* submitted (lines 79-89, 115-117).
Allocate(r) ==
    /\ pc[r] = "read"
    /\ regNo' = [regNo EXCEPT ![r] = generateRegistrationNumber(students, prefix[r])]
    /\ pc' = [pc EXCEPT ![r] = "insert"]
    /\ UNCHANGED <<students, year, body, prefix, response, listResp>>

\* dbGet rejects: the catch block answers 500 (lines 29-31, 127-130).
ReadError(r) ==
    /\ pc[r] = "read"
    /\ pc' = [pc EXCEPT ![r] = "done"]
    /\ response' = [response EXCEPT ![r] = [status |-> 500]]
    /\ UNCHANGED <<students, year, body, prefix, regNo, listResp>>

\* as Insert, answering 201 whether or not the row was stored
InsertSwallowed(r) ==
    /\ pc[r] = "insert"
    /\ pc' = [pc EXCEPT ![r] = "done"]
    /\ students' = IF UniqueOk(students, regNo[r])
                   THEN Append(students, InsertedRow(students, regNo[r], body[r]))
                   ELSE students
    /\ response' = [response EXCEPT
           ![r] = [status |-> 201, student |-> ResponseStudent(regNo[r], body[r])]]
    /\ UNCHANGED <<year, body, prefix, regNo, listResp>>

\* dbRun settles: the row is stored and 201 answered, or the UNIQUE constraint
\* refuses the row and the catch block answers 500 (lines 117-130).
Insert(r) ==
    /\ pc[r] = "insert"
    /\ pc' = [pc EXCEPT ![r] = "done"]
    /\ IF UniqueOk(students, regNo[r])
       THEN /\ students' = Append(students, InsertedRow(students, regNo[r], body[r]))
            /\ response' = [response EXCEPT
                   ![r] = [status |-> 201, student |-> ResponseStudent(regNo[r], body[r])]]
       ELSE /\ response' = [response EXCEPT ![r] = [status |-> 500]]
            /\ UNCHANGED students
    /\ UNCHANGED <<year, body, prefix, regNo, listResp>>

\* as InsertError, with the row stored before the failure is reported
InsertErrorPartial(r) ==
    /\ pc[r] = "insert"
    /\ pc' = [pc EXCEPT ![r] = "done"]
    /\ students' = Append(students, InsertedRow(students, regNo[r], body[r]))
    /\ response' = [response EXCEPT ![r] = [status |-> 500]]
    /\ UNCHANGED <<year, body, prefix, regNo, listResp>>

\* dbRun rejects for another reason (the file is busy, the disk is full).
InsertError(r) ==
    /\ pc[r] = "insert"
    /\ pc' = [pc EXCEPT ![r] = "done"]
    /\ response' = [response EXCEPT ![r] = [status |-> 500]]
    /\ UNCHANGED <<students, year, body, prefix, regNo, listResp>>

\* the response has gone out: the slot serves the next request
Deliver(r) ==
    /\ pc[r] = "done"
    /\ pc' = [pc EXCEPT ![r] = "idle"]
    /\ body' = [body EXCEPT ![r] = NoBody]
    /\ prefix' = [prefix EXCEPT ![r] = NoText]
    /\ regNo' = [regNo EXCEPT ![r] = NoText]
    /\ response' = [response EXCEPT ![r] = NoResponse]
    /\ UNCHANGED <<students, year, listResp>>

----------------------------------------------------------------------------
(* GET /api/students *)

ListStudents(q) ==
    /\ listResp = NoList
    /\ listResp' = [status |-> 200, query |-> q, students |-> dbAllStudents(students, q)]
    /\ UNCHANGED <<students, year, pc, body, prefix, regNo, response>>

\* dbAll rejects: 500 (lines 41-43, 150-153)
ListError(q) ==
    /\ listResp = NoList
    /\ listResp' = [status |-> 500, query |-> q]
    /\ UNCHANGED <<students, year, pc, body, prefix, regNo, response>>

ListDeliver ==
    /\ listResp # NoList
    /\ listResp' = NoList
    /\ UNCHANGED <<students, year, pc, body, prefix, regNo, response>>

----------------------------------------------------------------------------
(* The clock *)

Tick ==
    /\ year + 1 \in Years
    /\ year' = year + 1
    /\ UNCHANGED <<students, pc, body, prefix, regNo, response, listResp>>

----------------------------------------------------------------------------
(* Specifications *)

InitRequests ==
    /\ year = FirstYear
    /\ pc = [r \in Reqs |-> "idle"]
    /\ body = [r \in Reqs |-> NoBody]
    /\ prefix = [r \in Reqs |-> NoText]
    /\ regNo = [r \in Reqs |-> NoText]
    /\ response = [r \in Reqs |-> NoResponse]
    /\ listResp = NoList

\* the database file is new
Init == students = <<>> /\ InitRequests

InFlight == {r \in Reqs : pc[r] \in {"read", "insert"}}

\* Concurrent requests, store failures, the year changing.
Next ==
    \/ \E r \in Reqs, b \in ConcBodies :
          Len(students) + Cardinality(InFlight) < MaxRecords /\ Register(r, b)
    \/ \E r \in Reqs : Allocate(r)
    \/ \E r \in Reqs : ReadError(r)
    \/ \E r \in Reqs : Insert(r)
    \/ \E r \in Reqs : InsertError(r)
    \/ \E r \in Reqs : Deliver(r)
    \/ \E q \in Queries : ListStudents(q)
    \/ \E q \in Queries : ListError(q)
    \/ ListDeliver
    \/ Tick

Spec == Init /\ [][Next]_vars

\* One request at a time, each completed before the next starts; the store
\* does not fail and the year does not change.
Serial == CHOOSE r \in Reqs : TRUE

Quiet == listResp = NoList /\ \A r \in Reqs : pc[r] = "idle"

NextFields ==
    \/ \E b \in Bodies : Quiet /\ Len(students) < MaxSerial /\ Register(Serial, b)
    \/ Allocate(Serial)
    \/ Insert(Serial)
    \/ Deliver(Serial)
    \/ \E q \in Queries : Quiet /\ ListStudents(q)
    \/ ListDeliver

SpecFields == Init /\ [][NextFields]_vars

\* The table NearFull serial registrations of one year leave in the file.
SerialTable(n, y) ==
    [i \in 1..n |->
        [id |-> i, reg_no |-> FormatRegNo(Prefix(y), i),
         name |-> Plain, email |-> Plain, department |-> Plain,
         address |-> Plain, division |-> Plain]]

InitLong == students = SerialTable(NearFull, FirstYear) /\ InitRequests

NextLong ==
    \/ \E b \in LongBodies :
          Quiet /\ Len(students) < NearFull + MaxRecords /\ Register(Serial, b)
    \/ Allocate(Serial)
    \/ Insert(Serial)
    \/ Deliver(Serial)

SpecSerial == InitLong /\ [][NextLong]_vars

\* Concurrent requests and the year changing; the store does not fail.
NextRace ==
    \/ \E r \in Reqs, b \in ConcBodies :
          Len(students) + Cardinality(InFlight) < MaxRecords /\ Register(r, b)
    \/ \E r \in Reqs : Allocate(r)
    \/ \E r \in Reqs : Insert(r)
    \/ \E r \in Reqs : Deliver(r)
    \/ Tick

SpecRace == Init /\ [][NextRace]_vars

----------------------------------------------------------------------------
(* Properties *)

Valid(b) == DOMAIN b = Fields /\ \A f \in Fields : b[f] # <<>>

Done(r) == pc[r] = "done"

RowsWith(no) == {i \in 1..Len(students) : students[i].reg_no = no}

\* the four year digits of a registration number
YearOf(no) == SubSeq(no, Len(COL) + 1, Len(COL) + 4)

\* C1: in a serial run within one year, from a table with no row of the year,
\* the k-th valid request is answered 201 with sequence number k.  The table
\* of such a run holds one row per earlier valid request, so k is its length
\* once the request's row is stored.
C1_SerialSequence ==
    \A r \in Reqs :
        Done(r) /\ Valid(body[r]) =>
            /\ response[r].status = 201
            /\ regNo[r] = Prefix(year) \o PadStart(Digits(Len(students)), 3, "0")

\* C2: no two rows of the students table have the same reg_no.
C2_UniqueRegNo ==
    \A i, j \in 1..Len(students) :
        i # j => students[i].reg_no # students[j].reg_no

\* C2 witness: a request was assigned a reg_no that a stored row carries, and
\* its insert was refused.
C2_Witness ==
    \E r \in Reqs :
        /\ Done(r) /\ response[r].status = 500
        /\ regNo[r] \in RegNos(students)
        /\ Len(students) >= 2

\* C3 as stated: two requests that were assigned the same reg_no both leave a
\* row carrying it.
C3_RaceDuplicates ==
    \A a, b \in Reqs :
        a # b /\ Done(a) /\ Done(b) /\ regNo[a] # NoText /\ regNo[a] = regNo[b] =>
            Cardinality(RowsWith(regNo[a])) = 2

\* C3 amended: two requests that were assigned the same reg_no are not both
\* answered 201, at most one row carries that reg_no, and a request answered
\* 201 has its row.
C3_RaceRefused ==
    \A a, b \in Reqs :
        a # b /\ Done(a) /\ Done(b) /\ regNo[a] # NoText /\ regNo[a] = regNo[b] =>
            /\ ~(response[a].status = 201 /\ response[b].status = 201)
            /\ Cardinality(RowsWith(regNo[a])) <= 1
            /\ (response[a].status = 201 \/ response[b].status = 201 =>
                    Cardinality(RowsWith(regNo[a])) = 1)

\* C3 witness: both requests read before either insert, one is answered 201
\* and the other 500.
C3_Witness ==
    \E a, b \in Reqs :
        /\ a # b /\ Done(a) /\ Done(b)
        /\ regNo[a] # NoText /\ regNo[a] = regNo[b]
        /\ response[a].status = 201 /\ response[b].status = 500
        /\ Cardinality(RowsWith(regNo[a])) = 1

\* C4: once the year holds sequence 999, every further serial valid
\* registration is answered 201, is stored, and carries a suffix of four or
\* more digits.
C4_BeyondLimit ==
    \A r \in Reqs :
        /\ Done(r) /\ Valid(body[r])
        /\ prefix[r] \o Digits(999) \in RegNos(students)
        /\ regNo[r] # prefix[r] \o Digits(999)
        => /\ response[r].status = 201
           /\ regNo[r] \in RegNos(students)
           /\ Len(regNo[r]) >= Len(prefix[r]) + 4

\* C5 as stated: a request with some field absent is answered 400 listing
\* exactly the absent fields.
C5_ListsAbsent ==
    \A r \in Reqs :
        Done(r) /\ DOMAIN body[r] # Fields =>
            /\ response[r].status = 400
            /\ {response[r].missing[i] : i \in 1..Len(response[r].missing)}
                   = Fields \ DOMAIN body[r]

\* C5 amended: a request with some field absent or empty is answered 400
\* listing exactly the fields that are absent or empty, each once; the
\* allocator is not invoked and the table is left unchanged.
C5_ListsMissing ==
    /\ [](\A r \in Reqs :
            Done(r) /\ (\E f \in Fields : f \notin DOMAIN body[r] \/ body[r][f] = <<>>) =>
                /\ response[r].status = 400
                /\ \A f \in Fields :
                      (\E i \in 1..Len(response[r].missing) : response[r].missing[i] = f)
                          <=> (f \notin DOMAIN body[r] \/ body[r][f] = <<>>)
                /\ Len(response[r].missing)
                      = Cardinality({f \in Fields : f \notin DOMAIN body[r] \/ body[r][f] = <<>>})
                /\ prefix[r] = NoText /\ regNo[r] = NoText)
    /\ [][\A r \in Reqs :
            response'[r].status = 400 /\ response[r].status # 400 =>
                students' = students]_vars

\* C5 witness: a 400 for a body with one field absent and another empty.
C5_Witness ==
    \E r \in Reqs :
        /\ Done(r) /\ response[r].status = 400
        /\ \E f \in Fields : f \notin DOMAIN body[r]
        /\ \E f \in DOMAIN body[r] : body[r][f] = <<>>
        /\ Len(response[r].missing) >= 2

\* C6: every stored row has name, email, department, address and division
\* non-empty.
C6_NoEmptyStored ==
    \A i \in 1..Len(students) : \A f \in Fields : students[i][f] # <<>>

\* C7 as stated: the listing holds exactly the rows whose department equals
\* the department parameter, all rows when no parameter is given, by
\* descending id.
C7_ListExact ==
    listResp.status = 200 =>
        /\ {listResp.students[i] : i \in 1..Len(listResp.students)}
              = {x \in Rows(students) :
                    "department" \in DOMAIN listResp.query =>
                        x.department = listResp.query["department"]}
        /\ \A i, j \in 1..Len(listResp.students) :
              i < j => listResp.students[i].id > listResp.students[j].id

\* C7 amended: the listing holds exactly the rows whose department equals the
\* department parameter, all rows when the parameter is not given or is
\* empty, by descending id.
C7_ListFiltered ==
    listResp.status = 200 =>
        /\ {listResp.students[i] : i \in 1..Len(listResp.students)}
              = {x \in Rows(students) :
                    ("department" \in DOMAIN listResp.query
                        /\ listResp.query["department"] # <<>>) =>
                        x.department = listResp.query["department"]}
        /\ \A i, j \in 1..Len(listResp.students) :
              i < j => listResp.students[i].id > listResp.students[j].id

\* C7 witness: a filtered listing that returns one of two stored rows.
C7_Witness ==
    /\ listResp.status = 200
    /\ "department" \in DOMAIN listResp.query
    /\ Len(students) = 2
    /\ Len(listResp.students) = 1
    /\ listResp.students[1].department = listResp.query["department"]

\* C8: the student object of a 201 response equals, field by field, the row
\* the request stored.
C8_ResponseIsRecord ==
    \A r \in Reqs :
        Done(r) /\ response[r].status = 201 =>
            \E i \in 1..Len(students) :
                /\ students[i].reg_no = response[r].student.reg_no
                /\ \A f \in Fields : students[i][f] = response[r].student[f]

\* C9: a step that answers 500 leaves the table unchanged and ends the
\* request; an answered request is not retried; the table changes only in
\* the step that answers 201, by the one row of that request.
C9_FailureLeavesTable ==
    [][\A r \in Reqs :
          /\ (response'[r].status = 500 /\ response[r].status # 500 =>
                 /\ students' = students
                 /\ pc[r] \in {"read", "insert"}
                 /\ pc'[r] = "done")
          /\ (Done(r) => pc'[r] \in {"done", "idle"})
          /\ (Done(r) /\ pc'[r] = "done" => response'[r] = response[r])
          /\ (students' # students =>
                 \E o \in Reqs :
                    /\ pc[o] = "insert" /\ response'[o].status = 201
                    /\ Len(students') = Len(students) + 1
                    /\ SubSeq(students', 1, Len(students)) = students
                    /\ students'[Len(students')].reg_no = regNo[o])]_vars

\* C9 witness: one request failed on the allocator's read and another on the
\* insert, and neither left a row.
C9_Witness ==
    \E a, b \in Reqs :
        /\ Done(a) /\ response[a].status = 500 /\ regNo[a] = NoText
        /\ Done(b) /\ response[b].status = 500 /\ regNo[b] # NoText
        /\ regNo[b] \notin RegNos(students)

\* C10: when the table holds no row of the request's year, the allocator
\* returns that year's prefix followed by 001, whatever rows of other years it
\* holds; and no step changes or removes a stored row.
C10_YearIsolated ==
    [][/\ \A r \in Reqs :
             /\ pc[r] = "read" /\ pc'[r] = "insert"
             /\ \A i \in 1..Len(students) :
                   YearOf(students[i].reg_no) # YearOf(prefix[r])
             => regNo'[r] = prefix[r] \o <<"0", "0", "1">>
       /\ Len(students') >= Len(students)
       /\ \A i \in 1..Len(students) : students'[i] = students[i]]_vars

\* C10 witness: a row of the first year is stored and the next year's first
\* registration got 001.
C10_Witness ==
    \E i, j \in 1..Len(students) :
        /\ i < j
        /\ YearOf(students[i].reg_no) = Digits(FirstYear)
        /\ students[j].reg_no = COL \o Digits(FirstYear + 1) \o <<"0", "0", "1">>

====
